---- MODULE Spec2Model ----
(***************************************************************************)
(* Model of the NFT stake program's instruction processor                  *)
(* (src/src/processor.rs, src/src/state.rs, src/src/error.rs).             *)
(*                                                                         *)
(* The ledger maps an address to an account (existence, owning program,    *)
(* the UserStakeInfo stored in its data).  Each action is one instruction  *)
(* handler run to completion on inputs chosen by the caller; the handler   *)
(* is an operator that follows the code statement by statement and yields  *)
(* the result, the logged rewards, the ordered list of steps it executed   *)
(* and the ledger it leaves behind.  No transaction rollback is modelled:  *)
(* the ledger after a failed handler is whatever the handler had written.  *)
(***************************************************************************)
EXTENDS Integers, Sequences, FiniteSets, TLC

\* ---------------------------------------------------------------- bounds
NumUsers == 2
MaxClock == 2

\* ------------------------------------------------------------- constants
\* first reading of the runtime clock (a unix timestamp, positive)
GenesisTime == 1
\* Pubkey::default(), the 32 zero bytes found in freshly allocated data
ZeroKey == 0

\* the keys of the users and of the token holdings a caller may pass; one
\* holding key keeps the product of records and inputs small enough to explore
Users == 1..NumUsers
Holdings == {1}
NumHoldings == Cardinality(Holdings)

\* owners of an account's storage
ProgramId == "program_id"
SystemProgram == "system_program"

\* the derivation with the user's key left out of the seeds
find_program_address_without_user_seed(user, nft) == nft

\* Pubkey::find_program_address(&[user, nft_token_account], program_id):
\* deterministic and injective on (user, holding)
find_program_address(user, nft) == (user - 1) * NumHoldings + nft

\* the addresses a caller may pass as stake_state: the derived ones
Addresses == 1..(NumUsers * NumHoldings)

\* UserStakeInfo read from zeroed storage
ZeroStakeInfo ==
  [is_initialized |-> FALSE, user |-> ZeroKey, token_account |-> ZeroKey,
   stake_start_time |-> 0, last_redeem_time |-> 0, is_stake_active |-> FALSE]

\* IsInitialized for UserStakeInfo
is_initialized(account_data) == account_data.is_initialized

\* an address nobody created an account at
NoAccount == [exists |-> FALSE, owner |-> SystemProgram, data |-> ZeroStakeInfo]

\* period keeps, for each address, the clock reading of the last successful
\* Stake and the sum of the rewards logged for the record since then
VARIABLES ledger, clock, last, before, period
vars == <<ledger, clock, last, before, period>>

\* ------------------------------------------------------- handler results
Ok == "Ok"
Outcome(result, logs, steps, L) ==
  [result |-> result, logs |-> logs, steps |-> steps, ledger |-> L]

\* account_data.serialize(&mut stake_state.data): the single write-back
serialize(L, stake_state, account_data) ==
  [L EXCEPT ![stake_state].data = account_data]

\* system_instruction::create_account through invoke_signed: the funding
\* user must be a signer of the transaction and the new address must not be
\* in use; on success the storage is allocated zeroed and assigned to the
\* program
create_account(L, user, stake_state, is_signer) ==
  IF ~is_signer THEN [err |-> "PrivilegeEscalation", ledger |-> L]
  ELSE IF L[stake_state].exists THEN [err |-> "AccountAlreadyInUse", ledger |-> L]
  ELSE [err |-> Ok,
        ledger |-> [L EXCEPT ![stake_state] =
                      [exists |-> TRUE, owner |-> ProgramId, data |-> ZeroStakeInfo]]]

\* the fields process_initialize_stake_account sets, with the two flags swapped
initialize_update_flags_swapped(account_data, user, nft) ==
  [account_data EXCEPT !.user = user, !.token_account = nft,
                       !.is_stake_active = TRUE, !.is_initialized = FALSE]

\* the fields process_initialize_stake_account sets, with the two keys swapped
initialize_update_keys_swapped(account_data, user, nft) ==
  [account_data EXCEPT !.user = nft, !.token_account = user,
                       !.is_stake_active = FALSE, !.is_initialized = TRUE]

\* the fields process_initialize_stake_account sets on the fresh record
initialize_update(account_data, user, nft) ==
  [account_data EXCEPT !.user = user, !.token_account = nft,
                       !.is_stake_active = FALSE, !.is_initialized = TRUE]

process_initialize_stake_account(L, user, nft, stake_state, is_signer, now) ==
  IF find_program_address(user, nft) # stake_state
  THEN Outcome("InvalidPda", <<>>, <<"check_pda">>, L)
  ELSE LET created == create_account(L, user, stake_state, is_signer)
           L1 == created.ledger
           account_data == L1[stake_state].data
       IN IF created.err # Ok
          THEN Outcome(created.err, <<>>, <<"check_pda", "create_account">>, L1)
          ELSE IF is_initialized(account_data)
          THEN Outcome("AccountAlreadyInitialized", <<>>,
                       <<"check_pda", "create_account", "check_initialized">>, L1)
          ELSE Outcome(Ok, <<>>,
                       <<"check_pda", "create_account", "check_initialized", "write">>,
                       serialize(L1, stake_state, initialize_update(account_data, user, nft)))

\* the fields process_stake sets, with the redemption point reset to zero
stake_update_redeem_time_reset(account_data, user, nft, now) ==
  [account_data EXCEPT !.user = user, !.token_account = nft,
                       !.stake_start_time = now, !.last_redeem_time = 0,
                       !.is_stake_active = TRUE]

\* the fields process_stake sets, with the holding's key stored as the user
stake_update_owner_is_holding(account_data, user, nft, now) ==
  [account_data EXCEPT !.user = nft, !.token_account = nft,
                       !.stake_start_time = now, !.last_redeem_time = now,
                       !.is_stake_active = TRUE]

\* the fields process_stake sets, with last_redeem_time left as it was
stake_update_keeping_redeem_time(account_data, user, nft, now) ==
  [account_data EXCEPT !.user = user, !.token_account = nft,
                       !.stake_start_time = now, !.is_stake_active = TRUE]

\* the fields process_stake sets, with stake_start_time forgotten
stake_update_without_start_time(account_data, user, nft, now) ==
  [account_data EXCEPT !.user = user, !.token_account = nft,
                       !.last_redeem_time = now, !.is_stake_active = TRUE]

\* the fields process_stake sets on the record
stake_update(account_data, user, nft, now) ==
  [account_data EXCEPT !.user = user, !.token_account = nft,
                       !.stake_start_time = now, !.last_redeem_time = now,
                       !.is_stake_active = TRUE]

\* process_stake with the test of is_stake_active left out
process_stake_without_active_check(L, user, nft, stake_state, is_signer, now) ==
  LET account_data == L[stake_state].data IN
  IF ~is_signer
  THEN Outcome("MissingRequiredSignature", <<>>, <<"check_signer">>, L)
  ELSE IF L[stake_state].owner # ProgramId
  THEN Outcome("IllegalOwner", <<>>, <<"check_signer", "check_owner">>, L)
  ELSE IF find_program_address(user, nft) # stake_state
  THEN Outcome("InvalidPda", <<>>, <<"check_signer", "check_owner", "check_pda">>, L)
  ELSE IF ~is_initialized(account_data)
  THEN Outcome("UninitializedAccount", <<>>,
               <<"check_signer", "check_owner", "check_pda", "check_initialized">>, L)
  ELSE Outcome(Ok, <<>>,
               <<"check_signer", "check_owner", "check_pda", "check_initialized",
                 "write">>,
               serialize(L, stake_state, stake_update(account_data, user, nft, now)))

\* process_stake with the test of the storage owner moved before the signer test
process_stake_owner_check_first(L, user, nft, stake_state, is_signer, now) ==
  LET account_data == L[stake_state].data IN
  IF L[stake_state].owner # ProgramId
  THEN Outcome("IllegalOwner", <<>>, <<"check_owner">>, L)
  ELSE IF ~is_signer
  THEN Outcome("MissingRequiredSignature", <<>>, <<"check_owner", "check_signer">>, L)
  ELSE IF find_program_address(user, nft) # stake_state
  THEN Outcome("InvalidPda", <<>>, <<"check_owner", "check_signer", "check_pda">>, L)
  ELSE IF ~is_initialized(account_data)
  THEN Outcome("UninitializedAccount", <<>>,
               <<"check_owner", "check_signer", "check_pda", "check_initialized">>, L)
  ELSE IF account_data.is_stake_active
  THEN Outcome("InvalidArgument", <<>>,
               <<"check_owner", "check_signer", "check_pda", "check_initialized",
                 "check_active">>, L)
  ELSE Outcome(Ok, <<>>,
               <<"check_owner", "check_signer", "check_pda", "check_initialized",
                 "check_active", "write">>,
               serialize(L, stake_state, stake_update(account_data, user, nft, now)))

process_stake(L, user, nft, stake_state, is_signer, now) ==
  LET account_data == L[stake_state].data IN
  IF ~is_signer
  THEN Outcome("MissingRequiredSignature", <<>>, <<"check_signer">>, L)
  ELSE IF L[stake_state].owner # ProgramId
  THEN Outcome("IllegalOwner", <<>>, <<"check_signer", "check_owner">>, L)
  ELSE IF find_program_address(user, nft) # stake_state
  THEN Outcome("InvalidPda", <<>>, <<"check_signer", "check_owner", "check_pda">>, L)
  ELSE IF ~is_initialized(account_data)
  THEN Outcome("UninitializedAccount", <<>>,
               <<"check_signer", "check_owner", "check_pda", "check_initialized">>, L)
  ELSE IF account_data.is_stake_active
  THEN Outcome("InvalidArgument", <<>>,
               <<"check_signer", "check_owner", "check_pda", "check_initialized",
                 "check_active">>, L)
  ELSE Outcome(Ok, <<>>,
               <<"check_signer", "check_owner", "check_pda", "check_initialized",
                 "check_active", "write">>,
               serialize(L, stake_state, stake_update(account_data, user, nft, now)))

\* reward measured from the start of the stake instead of the last redemption
reward_since_stake_start(account_data, now) == now - account_data.stake_start_time

\* reward_amt = clock.unix_timestamp - account_data.last_redeem_time (i64; both
\* operands are non-negative timestamps, the difference cannot wrap)
reward_amount(account_data, now) == now - account_data.last_redeem_time

\* the field process_redeem sets, with is_stake_active cleared as in
\* process_unstake
redeem_update_deactivating(account_data, now) ==
  [account_data EXCEPT !.last_redeem_time = now, !.is_stake_active = FALSE]

\* the field process_redeem sets, with the start of the stake moved as well
redeem_update_restarting_stake(account_data, now) ==
  [account_data EXCEPT !.last_redeem_time = now, !.stake_start_time = now]

\* account_data.last_redeem_time = clock.unix_timestamp
redeem_update(account_data, now) == [account_data EXCEPT !.last_redeem_time = now]

\* process_redeem with the comparison of the derived address left out
process_redeem_without_pda_check(L, user, nft, stake_state, is_signer, now) ==
  LET account_data == L[stake_state].data
      reward_amt == reward_amount(account_data, now)
  IN
  IF ~is_signer
  THEN Outcome("MissingRequiredSignature", <<>>, <<"check_signer">>, L)
  ELSE IF L[stake_state].owner # ProgramId
  THEN Outcome("IllegalOwner", <<>>, <<"check_signer", "check_owner">>, L)
  ELSE IF ~is_initialized(account_data)
  THEN Outcome("UninitializedAccount", <<>>,
               <<"check_signer", "check_owner", "check_initialized">>, L)
  ELSE IF ~account_data.is_stake_active
  THEN Outcome("InvalidArgument", <<>>,
               <<"check_signer", "check_owner", "check_initialized",
                 "check_active">>, L)
  ELSE IF account_data.user # user
  THEN Outcome("InvalidStakeAccount", <<>>,
               <<"check_signer", "check_owner", "check_initialized",
                 "check_active", "check_user">>, L)
  ELSE IF account_data.token_account # nft
  THEN Outcome("InvalidTokenAccount", <<>>,
               <<"check_signer", "check_owner", "check_initialized",
                 "check_active", "check_user", "check_token_account">>, L)
  ELSE Outcome(Ok, <<reward_amt>>,
               <<"check_signer", "check_owner", "check_initialized",
                 "check_active", "check_user", "check_token_account", "write">>,
               serialize(L, stake_state, redeem_update(account_data, now)))

process_redeem(L, user, nft, stake_state, is_signer, now) ==
  LET account_data == L[stake_state].data
      reward_amt == reward_amount(account_data, now)
  IN
  IF ~is_signer
  THEN Outcome("MissingRequiredSignature", <<>>, <<"check_signer">>, L)
  ELSE IF L[stake_state].owner # ProgramId
  THEN Outcome("IllegalOwner", <<>>, <<"check_signer", "check_owner">>, L)
  ELSE IF find_program_address(user, nft) # stake_state
  THEN Outcome("InvalidPda", <<>>, <<"check_signer", "check_owner", "check_pda">>, L)
  ELSE IF ~is_initialized(account_data)
  THEN Outcome("UninitializedAccount", <<>>,
               <<"check_signer", "check_owner", "check_pda", "check_initialized">>, L)
  ELSE IF ~account_data.is_stake_active
  THEN Outcome("InvalidArgument", <<>>,
               <<"check_signer", "check_owner", "check_pda", "check_initialized",
                 "check_active">>, L)
  ELSE IF account_data.user # user
  THEN Outcome("InvalidStakeAccount", <<>>,
               <<"check_signer", "check_owner", "check_pda", "check_initialized",
                 "check_active", "check_user">>, L)
  ELSE IF account_data.token_account # nft
  THEN Outcome("InvalidTokenAccount", <<>>,
               <<"check_signer", "check_owner", "check_pda", "check_initialized",
                 "check_active", "check_user", "check_token_account">>, L)
  ELSE Outcome(Ok, <<reward_amt>>,
               <<"check_signer", "check_owner", "check_pda", "check_initialized",
                 "check_active", "check_user", "check_token_account", "write">>,
               serialize(L, stake_state, redeem_update(account_data, now)))

\* the fields process_unstake sets, with is_stake_active left as it was
unstake_update_keeps_active(account_data, now) ==
  [account_data EXCEPT !.last_redeem_time = now]

\* account_data.last_redeem_time = clock.unix_timestamp;
\* account_data.is_stake_active = false
unstake_update(account_data, now) ==
  [account_data EXCEPT !.last_redeem_time = now, !.is_stake_active = FALSE]

\* process_unstake writing the redemption point in place before the test of
\* is_stake_active
process_unstake_early_write(L, user, nft, stake_state, is_signer, now) ==
  LET account_data == L[stake_state].data
      reward_amt == reward_amount(account_data, now)
  IN
  IF ~is_signer
  THEN Outcome("MissingRequiredSignature", <<>>, <<"check_signer">>, L)
  ELSE IF L[stake_state].owner # ProgramId
  THEN Outcome("IllegalOwner", <<>>, <<"check_signer", "check_owner">>, L)
  ELSE IF find_program_address(user, nft) # stake_state
  THEN Outcome("InvalidPda", <<>>, <<"check_signer", "check_owner", "check_pda">>, L)
  ELSE IF ~is_initialized(account_data)
  THEN Outcome("UninitializedAccount", <<>>,
               <<"check_signer", "check_owner", "check_pda", "check_initialized">>, L)
  ELSE IF ~account_data.is_stake_active
  THEN Outcome("InvalidArgument", <<>>,
               <<"check_signer", "check_owner", "check_pda", "check_initialized",
                 "write", "check_active">>,
               serialize(L, stake_state, redeem_update(account_data, now)))
  ELSE IF account_data.user # user
  THEN Outcome("InvalidStakeAccount", <<>>,
               <<"check_signer", "check_owner", "check_pda", "check_initialized",
                 "check_active", "check_user">>, L)
  ELSE IF account_data.token_account # nft
  THEN Outcome("InvalidTokenAccount", <<>>,
               <<"check_signer", "check_owner", "check_pda", "check_initialized",
                 "check_active", "check_user", "check_token_account">>, L)
  ELSE Outcome(Ok, <<reward_amt>>,
               <<"check_signer", "check_owner", "check_pda", "check_initialized",
                 "check_active", "check_user", "check_token_account", "write">>,
               serialize(L, stake_state, unstake_update(account_data, now)))

\* process_unstake with the test of is_stake_active left out
process_unstake_without_active_check(L, user, nft, stake_state, is_signer, now) ==
  LET account_data == L[stake_state].data
      reward_amt == reward_amount(account_data, now)
  IN
  IF ~is_signer
  THEN Outcome("MissingRequiredSignature", <<>>, <<"check_signer">>, L)
  ELSE IF L[stake_state].owner # ProgramId
  THEN Outcome("IllegalOwner", <<>>, <<"check_signer", "check_owner">>, L)
  ELSE IF find_program_address(user, nft) # stake_state
  THEN Outcome("InvalidPda", <<>>, <<"check_signer", "check_owner", "check_pda">>, L)
  ELSE IF ~is_initialized(account_data)
  THEN Outcome("UninitializedAccount", <<>>,
               <<"check_signer", "check_owner", "check_pda", "check_initialized">>, L)
  ELSE IF account_data.user # user
  THEN Outcome("InvalidStakeAccount", <<>>,
               <<"check_signer", "check_owner", "check_pda", "check_initialized",
                 "check_user">>, L)
  ELSE IF account_data.token_account # nft
  THEN Outcome("InvalidTokenAccount", <<>>,
               <<"check_signer", "check_owner", "check_pda", "check_initialized",
                 "check_user", "check_token_account">>, L)
  ELSE Outcome(Ok, <<reward_amt>>,
               <<"check_signer", "check_owner", "check_pda", "check_initialized",
                 "check_user", "check_token_account", "write">>,
               serialize(L, stake_state, unstake_update(account_data, now)))

process_unstake(L, user, nft, stake_state, is_signer, now) ==
  LET account_data == L[stake_state].data
      reward_amt == reward_amount(account_data, now)
  IN
  IF ~is_signer
  THEN Outcome("MissingRequiredSignature", <<>>, <<"check_signer">>, L)
  ELSE IF L[stake_state].owner # ProgramId
  THEN Outcome("IllegalOwner", <<>>, <<"check_signer", "check_owner">>, L)
  ELSE IF find_program_address(user, nft) # stake_state
  THEN Outcome("InvalidPda", <<>>, <<"check_signer", "check_owner", "check_pda">>, L)
  ELSE IF ~is_initialized(account_data)
  THEN Outcome("UninitializedAccount", <<>>,
               <<"check_signer", "check_owner", "check_pda", "check_initialized">>, L)
  ELSE IF ~account_data.is_stake_active
  THEN Outcome("InvalidArgument", <<>>,
               <<"check_signer", "check_owner", "check_pda", "check_initialized",
                 "check_active">>, L)
  ELSE IF account_data.user # user
  THEN Outcome("InvalidStakeAccount", <<>>,
               <<"check_signer", "check_owner", "check_pda", "check_initialized",
                 "check_active", "check_user">>, L)
  ELSE IF account_data.token_account # nft
  THEN Outcome("InvalidTokenAccount", <<>>,
               <<"check_signer", "check_owner", "check_pda", "check_initialized",
                 "check_active", "check_user", "check_token_account">>, L)
  ELSE Outcome(Ok, <<reward_amt>>,
               <<"check_signer", "check_owner", "check_pda", "check_initialized",
                 "check_active", "check_user", "check_token_account", "write">>,
               serialize(L, stake_state, unstake_update(account_data, now)))

\* what a reader of the program log adds up: a successful Stake opens a
\* staking period, every reward logged by msg!("Reward: {}") is added to it
SumSeq(seq) == IF seq = <<>> THEN 0 ELSE seq[1]
Observe(P, op, out, stake_state, now) ==
  IF out.result # Ok THEN P
  ELSE IF op = "Stake" THEN [P EXCEPT ![stake_state] = [start |-> now, sum |-> 0]]
  ELSE [P EXCEPT ![stake_state].sum = @ + SumSeq(out.logs)]

\* ------------------------------------------------------------- behaviour
Init ==
  /\ ledger = [a \in Addresses |-> NoAccount]
  /\ clock = GenesisTime
  /\ last = [op |-> "None", user |-> ZeroKey, nft |-> ZeroKey,
             stake_state |-> 1, is_signer |-> FALSE, now |-> GenesisTime,
             result |-> Ok, logs |-> <<>>, steps |-> <<>>]
  /\ before = ledger
  /\ period = [a \in Addresses |-> [start |-> 0, sum |-> 0]]

\* process_instruction dispatching to process_initialize_stake_account: the runtime hands the
\* handler its accounts; what it returned and logged is kept in last
Initialize ==
  \E user \in Users, nft \in Holdings, stake_state \in Addresses, is_signer \in BOOLEAN :
    LET out == process_initialize_stake_account(ledger, user, nft, stake_state, is_signer, clock) IN
    /\ before' = ledger
    /\ ledger' = out.ledger
    /\ last' = [op |-> "Initialize", user |-> user, nft |-> nft, stake_state |-> stake_state,
                is_signer |-> is_signer, now |-> clock,
                result |-> out.result, logs |-> out.logs, steps |-> out.steps]
    /\ period' = Observe(period, "Initialize", out, stake_state, clock)
    /\ UNCHANGED clock

\* process_instruction dispatching to process_stake: the runtime hands the
\* handler its accounts; what it returned and logged is kept in last
Stake ==
  \E user \in Users, nft \in Holdings, stake_state \in Addresses, is_signer \in BOOLEAN :
    LET out == process_stake(ledger, user, nft, stake_state, is_signer, clock) IN
    /\ before' = ledger
    /\ ledger' = out.ledger
    /\ last' = [op |-> "Stake", user |-> user, nft |-> nft, stake_state |-> stake_state,
                is_signer |-> is_signer, now |-> clock,
                result |-> out.result, logs |-> out.logs, steps |-> out.steps]
    /\ period' = Observe(period, "Stake", out, stake_state, clock)
    /\ UNCHANGED clock

\* process_instruction dispatching to process_redeem: the runtime hands the
\* handler its accounts; what it returned and logged is kept in last
Redeem ==
  \E user \in Users, nft \in Holdings, stake_state \in Addresses, is_signer \in BOOLEAN :
    LET out == process_redeem(ledger, user, nft, stake_state, is_signer, clock) IN
    /\ before' = ledger
    /\ ledger' = out.ledger
    /\ last' = [op |-> "Redeem", user |-> user, nft |-> nft, stake_state |-> stake_state,
                is_signer |-> is_signer, now |-> clock,
                result |-> out.result, logs |-> out.logs, steps |-> out.steps]
    /\ period' = Observe(period, "Redeem", out, stake_state, clock)
    /\ UNCHANGED clock

\* process_instruction dispatching to process_unstake: the runtime hands the
\* handler its accounts; what it returned and logged is kept in last
Unstake ==
  \E user \in Users, nft \in Holdings, stake_state \in Addresses, is_signer \in BOOLEAN :
    LET out == process_unstake(ledger, user, nft, stake_state, is_signer, clock) IN
    /\ before' = ledger
    /\ ledger' = out.ledger
    /\ last' = [op |-> "Unstake", user |-> user, nft |-> nft, stake_state |-> stake_state,
                is_signer |-> is_signer, now |-> clock,
                result |-> out.result, logs |-> out.logs, steps |-> out.steps]
    /\ period' = Observe(period, "Unstake", out, stake_state, clock)
    /\ UNCHANGED clock

\* the runtime clock advances between instructions and never goes back
Tick ==
  /\ clock < MaxClock
  /\ clock' = clock + 1
  /\ UNCHANGED <<ledger, last, before, period>>

Next == Initialize \/ Stake \/ Redeem \/ Unstake \/ Tick

Spec == Init /\ [][Next]_vars

\* the calls of a record's owner: signed, with the stored user and holding
\* and the record's own address
OwnerUnstake(a) ==
  /\ ledger[a].data.is_stake_active
  /\ Unstake
  /\ last'.is_signer /\ last'.stake_state = a
  /\ last'.user = ledger[a].data.user /\ last'.nft = ledger[a].data.token_account

OwnerStake(a) ==
  /\ ledger[a].data.is_initialized /\ ~ledger[a].data.is_stake_active
  /\ Stake
  /\ last'.is_signer /\ last'.stake_state = a
  /\ last'.user = ledger[a].data.user /\ last'.nft = ledger[a].data.token_account

\* the owner of every record keeps calling: an Unstake of an active record
\* and a Stake of an inactive one are not put off forever
FairSpec ==
  /\ Spec
  /\ \A a \in Addresses : WF_vars(OwnerUnstake(a)) /\ WF_vars(OwnerStake(a))

\* ------------------------------------------------------------ properties
\* The error names of the code: MissingSignature of the design is
\* ProgramError::MissingRequiredSignature; the code has no AlreadyActive or
\* NotActive error, process_stake, process_redeem and process_unstake return
\* ProgramError::InvalidArgument for a wrong is_stake_active.

Invoked == last.op # "None"
Succeeded == Invoked /\ last.result = Ok
Failed == Invoked /\ last.result # Ok
\* the record at the address the last instruction was given, before and after
pre == before[last.stake_state].data
post == ledger[last.stake_state].data
DerivedAddress == find_program_address(last.user, last.nft)
\* the last instruction was given the derived address of its (user, holding)
RightAddress == last.stake_state = DerivedAddress

\* C1: an operation that returns an error leaves every account as it was: the
\* six fields of every record and whether its storage exists.
FailedOperationLeavesLedger == Failed => ledger = before

\* a signed Unstake on the derived address of an inactive record was refused
\* by the last test before the write
FailedDeepInValidation ==
  /\ last.op = "Unstake" /\ last.result = "InvalidArgument"
  /\ last.is_signer /\ RightAddress /\ pre.is_initialized

\* C2: a record with is_stake_active has is_initialized.
ActiveImpliesInitialized ==
  \A a \in Addresses : ledger[a].data.is_stake_active => ledger[a].data.is_initialized

SomeRecordActive ==
  \E a \in Addresses : ledger[a].data.is_stake_active /\ ledger[a].data.is_initialized

\* C3: with a clock that never goes back, no instruction lowers the
\* last_redeem_time of any record.
LastRedeemTimeNeverDecreases ==
  Invoked => \A a \in Addresses :
               ledger[a].data.last_redeem_time >= before[a].data.last_redeem_time

\* a Stake that follows an Unstake of the same record at a later clock reading
RestakedAfterUnstake ==
  /\ last.op = "Stake" /\ Succeeded
  /\ pre.stake_start_time > 0
  /\ post.last_redeem_time > pre.last_redeem_time

\* C4: a successful Redeem or Unstake logs now - last_redeem_time(before) as
\* its only reward, sets last_redeem_time to now, and the reward is >= 0.
RewardIsElapsedSinceLastRedeem ==
  (Succeeded /\ last.op \in {"Redeem", "Unstake"}) =>
     /\ last.logs = <<last.now - pre.last_redeem_time>>
     /\ post.last_redeem_time = last.now
     /\ last.logs[1] >= 0

\* a Redeem that logged a positive reward
RedeemWithPositiveReward ==
  /\ last.op = "Redeem" /\ Succeeded
  /\ last.logs[1] > 0
  /\ post.is_stake_active

\* C5 as stated: any operation given an address other than the derived one
\* fails with InvalidPda, whatever the signer flag and the storage owner.
WrongAddressAlwaysInvalidPda ==
  (Invoked /\ ~RightAddress) => last.result = "InvalidPda"

\* C5 amended: an operation given an address other than the derived one
\* fails and changes nothing; Initialize fails with InvalidPda, while Stake,
\* Redeem and Unstake fail with MissingRequiredSignature when the user did not
\* sign, else with IllegalOwner when the storage is not the program's, and
\* with InvalidPda only when both of these tests passed.
WrongAddressRejected ==
  (Invoked /\ ~RightAddress) =>
     /\ ledger = before
     /\ last.result =
          IF last.op = "Initialize" THEN "InvalidPda"
          ELSE IF ~last.is_signer THEN "MissingRequiredSignature"
          ELSE IF before[last.stake_state].owner # ProgramId THEN "IllegalOwner"
          ELSE "InvalidPda"

\* a signed Redeem was given the active record of another user
RedeemOnForeignActiveRecord ==
  /\ last.op = "Redeem" /\ ~RightAddress /\ last.is_signer
  /\ before[last.stake_state].owner = ProgramId
  /\ pre.is_stake_active
  /\ last.result = "InvalidPda"

\* a signed Stake on the derived, program-owned address of an active record
StakeOnActiveRecord ==
  /\ last.op = "Stake" /\ last.is_signer /\ RightAddress
  /\ before[last.stake_state].owner = ProgramId
  /\ pre.is_initialized /\ pre.is_stake_active

\* C6 as stated: a Stake on an active record fails with AlreadyActive and
\* leaves the record unchanged.
StakeOnActiveFailsAlreadyActive ==
  StakeOnActiveRecord => (last.result = "AlreadyActive" /\ ledger = before)

\* C6 amended: a Stake on an active record fails with InvalidArgument and
\* leaves the record unchanged.
StakeOnActiveFailsInvalidArgument ==
  StakeOnActiveRecord => (last.result = "InvalidArgument" /\ ledger = before)

\* the refused Stake came at a later clock reading than the stake it found
StakeOnActiveRecordLater ==
  StakeOnActiveRecord /\ last.now > pre.stake_start_time

\* a signed Redeem or Unstake on the derived address of its (user, holding)
SignedRedeemOrUnstake ==
  last.op \in {"Redeem", "Unstake"} /\ last.is_signer /\ RightAddress

\* C7 as stated: a Redeem or Unstake on an initialized, inactive record fails
\* with NotActive, one on a record that is not initialized fails with
\* UninitializedAccount; the record is unchanged and no reward is logged.
InactiveFailsNotActive ==
  (SignedRedeemOrUnstake /\ ~pre.is_stake_active) =>
     /\ last.result = IF pre.is_initialized THEN "NotActive" ELSE "UninitializedAccount"
     /\ ledger = before
     /\ last.logs = <<>>

\* C7 amended: a Redeem or Unstake on an initialized, inactive record fails
\* with InvalidArgument; one on a record that is not initialized fails with
\* IllegalOwner, because the storage of such a record is not the program's;
\* the record is unchanged and no reward is logged.
InactiveFailsInvalidArgument ==
  (SignedRedeemOrUnstake /\ ~pre.is_stake_active) =>
     /\ last.result = IF pre.is_initialized THEN "InvalidArgument" ELSE "IllegalOwner"
     /\ ~pre.is_initialized => before[last.stake_state].owner # ProgramId
     /\ ledger = before
     /\ last.logs = <<>>

\* an Unstake of a record that was staked and unstaked before
UnstakeOnUnstakedRecord ==
  /\ SignedRedeemOrUnstake /\ last.op = "Unstake"
  /\ pre.is_initialized /\ ~pre.is_stake_active /\ pre.stake_start_time > 0
  /\ last.now > pre.last_redeem_time

\* C8: an Initialize for a pair whose record is initialized fails with
\* AccountAlreadyInitialized and leaves the record unchanged.
SecondInitializeAlreadyInitialized ==
  (last.op = "Initialize" /\ last.is_signer /\ RightAddress /\ pre.is_initialized) =>
     (last.result = "AccountAlreadyInitialized" /\ ledger = before)

\* C9: an operation whose user did not sign fails with
\* MissingRequiredSignature and creates or modifies no record.
UnsignedFailsMissingSignature ==
  (Invoked /\ ~last.is_signer) =>
     (last.result = "MissingRequiredSignature" /\ ledger = before)

\* the steps of a handler that change the ledger
IsMutation(step) == step \in {"create_account", "write"}

\* C10: in the steps of every operation no test comes after a step that
\* changes the ledger.
ValidationBeforeMutation ==
  \A i, j \in 1..Len(last.steps) :
     (i < j /\ IsMutation(last.steps[i])) => IsMutation(last.steps[j])

\* C11: a record comes into existence, and becomes initialized, only by a
\* successful Initialize on its address; is_stake_active goes from false to
\* true only by a successful Stake and from true to false only by a
\* successful Unstake; a successful Redeem changes no is_stake_active; storage
\* that exists stays, and is_initialized never goes back to false.
LifecycleTransitions ==
  \A a \in Addresses :
     LET was == before[a]
         now_ == ledger[a]
         by(op) == Succeeded /\ last.op = op /\ last.stake_state = a
     IN /\ (now_.exists /\ ~was.exists) => by("Initialize")
        /\ (now_.data.is_initialized /\ ~was.data.is_initialized) => by("Initialize")
        /\ (now_.data.is_stake_active /\ ~was.data.is_stake_active) => by("Stake")
        /\ (was.data.is_stake_active /\ ~now_.data.is_stake_active) => by("Unstake")
        /\ (Succeeded /\ last.op = "Redeem") =>
              now_.data.is_stake_active = was.data.is_stake_active
        /\ was.exists => now_.exists
        /\ was.data.is_initialized => now_.data.is_initialized

\* an Unstake returned an active record to inactive while another record exists
UnstakedBesideAnotherRecord ==
  /\ last.op = "Unstake" /\ Succeeded
  /\ pre.is_stake_active /\ ~post.is_stake_active /\ post.is_initialized
  /\ \E b \in Addresses : b # last.stake_state /\ ledger[b].data.is_initialized

\* C12: a successful Initialize for (user, holding) ran on storage that did
\* not exist and leaves, at the derived address, a program-owned record with
\* is_initialized, user and token_account of the call and is_stake_active
\* false.
InitializeCreatesInactiveRecord ==
  (Succeeded /\ last.op = "Initialize") =>
     /\ RightAddress
     /\ ~before[DerivedAddress].exists
     /\ ledger[DerivedAddress].exists
     /\ ledger[DerivedAddress].owner = ProgramId
     /\ ledger[DerivedAddress].data.is_initialized
     /\ ledger[DerivedAddress].data.user = last.user
     /\ ledger[DerivedAddress].data.token_account = last.nft
     /\ ~ledger[DerivedAddress].data.is_stake_active

\* a successful Initialize by a user whose key differs from the holding's
InitializedByDistinctKeys ==
  last.op = "Initialize" /\ Succeeded /\ last.user # last.nft

\* C13: a successful Stake found the record initialized and inactive, sets
\* stake_start_time and last_redeem_time to the clock reading and
\* is_stake_active to true, and leaves is_initialized, user and token_account.
StakeStartsPeriod ==
  (Succeeded /\ last.op = "Stake") =>
     /\ pre.is_initialized /\ ~pre.is_stake_active
     /\ post.stake_start_time = last.now
     /\ post.last_redeem_time = last.now
     /\ post.is_stake_active
     /\ post.is_initialized = pre.is_initialized
     /\ post.user = pre.user
     /\ post.token_account = pre.token_account

\* the first Stake of a record, at a clock reading after the first one
FirstStakeAtLaterReading ==
  /\ last.op = "Stake" /\ Succeeded
  /\ pre.stake_start_time = 0 /\ last.now > GenesisTime

\* C14: a successful Redeem changes last_redeem_time of its record and
\* nothing else in the ledger; the record stays active.
RedeemChangesOnlyLastRedeemTime ==
  (Succeeded /\ last.op = "Redeem") =>
     /\ post.is_stake_active
     /\ ledger = [before EXCEPT ![last.stake_state].data.last_redeem_time =
                                   post.last_redeem_time]

\* a Redeem of a record that was redeemed before in the same staking period
RedeemAfterEarlierRedeem ==
  /\ last.op = "Redeem" /\ Succeeded
  /\ pre.last_redeem_time > pre.stake_start_time

\* C15: a successful Unstake found the record active, sets last_redeem_time
\* to the clock reading and is_stake_active to false, leaves the other four
\* fields, and a Stake by the same signing user on the record then succeeds.
UnstakeEndsPeriod ==
  (Succeeded /\ last.op = "Unstake") =>
     /\ pre.is_initialized /\ pre.is_stake_active
     /\ post = [pre EXCEPT !.last_redeem_time = last.now, !.is_stake_active = FALSE]
     /\ process_stake(ledger, last.user, last.nft, last.stake_state, TRUE, clock).result = Ok

\* an Unstake at a later clock reading than the Stake, with no Redeem between
UnstakeLaterThanStake ==
  /\ last.op = "Unstake" /\ Succeeded
  /\ last.now > pre.stake_start_time
  /\ pre.last_redeem_time = pre.stake_start_time

\* the place of each test in the order signer, storage owner, derived address,
\* is_initialized, is_stake_active, stored user, stored token_account
CheckRank(step) ==
  CASE step = "check_signer" -> 1
    [] step = "check_owner" -> 2
    [] step = "check_pda" -> 3
    [] step = "check_initialized" -> 4
    [] step = "check_active" -> 5
    [] step = "check_user" -> 6
    [] step = "check_token_account" -> 7
    [] OTHER -> 8

\* the error of the first test, in that order, that the call and the ledger
\* before it do not pass
FirstFailedCheck ==
  IF ~last.is_signer THEN "MissingRequiredSignature"
  ELSE IF before[last.stake_state].owner # ProgramId THEN "IllegalOwner"
  ELSE IF ~RightAddress THEN "InvalidPda"
  ELSE IF ~pre.is_initialized THEN "UninitializedAccount"
  ELSE IF pre.is_stake_active = (last.op = "Stake") THEN "InvalidArgument"
  ELSE IF pre.user # last.user THEN "InvalidStakeAccount"
  ELSE IF pre.token_account # last.nft THEN "InvalidTokenAccount"
  ELSE Ok

\* C16: Stake, Redeem and Unstake run their tests in the order signer,
\* storage owner, derived address, is_initialized, is_stake_active, stored
\* user, stored token_account, and return the error of the first that fails.
ChecksInFixedOrder ==
  last.op \in {"Stake", "Redeem", "Unstake"} =>
     /\ last.result = FirstFailedCheck
     /\ \A i, j \in 1..Len(last.steps) :
          i < j => CheckRank(last.steps[i]) < CheckRank(last.steps[j])
     /\ last.steps # <<>> /\ last.steps[1] = "check_signer"

\* a signed Stake on storage that is not the program's, with a wrong address
SignedStakeOnForeignStorageWrongAddress ==
  /\ last.op = "Stake" /\ last.is_signer /\ ~RightAddress
  /\ before[last.stake_state].owner # ProgramId
  /\ last.result = "IllegalOwner"
  /\ \E a \in Addresses : ledger[a].data.is_stake_active

PeriodRewardsSumToDuration ==
  (Succeeded /\ last.op \in {"Redeem", "Unstake"}) =>
     period[last.stake_state].sum = last.now - period[last.stake_state].start

\* an Unstake that closed a staking period to whose rewards an earlier
\* Redeem had contributed
PeriodClosedAfterRedeem ==
  /\ last.op = "Unstake" /\ Succeeded
  /\ period[last.stake_state].sum > SumSeq(last.logs)
  /\ period[last.stake_state].start = pre.stake_start_time

\* what the owner's call on the record at a returns now
OwnerCall(handler(_, _, _, _, _, _), L, a) ==
  handler(L, L[a].data.user, L[a].data.token_account, a, TRUE, clock)

\* every active record accepts its owner's Redeem and Unstake, the Unstake
\* leaves it inactive, and every initialized inactive record accepts its
\* owner's Stake
OwnerCallsAccepted ==
  \A a \in Addresses :
     LET account_data == ledger[a].data
         unstaked == OwnerCall(process_unstake, ledger, a)
     IN /\ account_data.is_stake_active =>
             /\ OwnerCall(process_redeem, ledger, a).result = Ok
             /\ unstaked.result = Ok
             /\ ~unstaked.ledger[a].data.is_stake_active
             /\ OwnerCall(process_stake, unstaked.ledger, a).result = Ok
        /\ (account_data.is_initialized /\ ~account_data.is_stake_active) =>
             OwnerCall(process_stake, ledger, a).result = Ok

\* C19: no record gets stuck: the owner's Redeem and Unstake of an active
\* record and the owner's Stake of an inactive one always succeed, and when
\* the owner keeps calling, an active record becomes inactive and an inactive
\* one active again.
NoRecordStuck ==
  /\ []OwnerCallsAccepted
  /\ \A a \in Addresses :
        /\ ledger[a].data.is_stake_active ~> ~ledger[a].data.is_stake_active
        /\ (ledger[a].data.is_initialized /\ ~ledger[a].data.is_stake_active)
              ~> ledger[a].data.is_stake_active

\* a record staked again after its owner unstaked it, at the last clock reading
RestakedAtLastReading ==
  /\ last.op = "Stake" /\ Succeeded
  /\ pre.stake_start_time > 0 /\ last.now = MaxClock
  /\ last.user = pre.user /\ last.nft = pre.token_account

====
